---- MODULE Spec2Model ----
(***************************************************************************)
(* Model of apps/payments/wise.py: the Wise webhook receiver, the          *)
(* balances#credit handler, the statement fetcher and the reconciliation   *)
(* of statement credits into BankTransaction rows.                         *)
(*                                                                         *)
(* The database is PostgreSQL behind a SQLAlchemy session with its default *)
(* settings: READ COMMITTED isolation (a query sees every committed row    *)
(* and the rows its own session has flushed), autoflush before each query, *)
(* and SELECT ... FOR UPDATE row locks held until commit or rollback.      *)
(***************************************************************************)
EXTENDS Integers, Sequences, FiniteSets, TLC

\* ------------------------------------------------------------------ bounds
MaxReqs == 2        \* webhook requests in flight at once
MaxEntries == 2     \* transactions in one statement
MaxRuns == 2        \* runs of the account discovery
MaxBalances == 2    \* balances the provider lists for one profile
MaxNumberLen == 9   \* characters of a generated account number
MaxProfiles == 2    \* profiles the provider lists

Reqs == 1..MaxReqs

\* Python's None, and a present value
None == <<>>
Some(x) == <<x>>

\* ------------------------------------------------------------------ inputs
\* An inbound HTTP request. sig is the X-Signature header: absent, not
\* base64 ("malformed"), base64 of a wrong signature ("forged") or the
\* provider's signature over the body ("valid"). body is the kind of payload:
\* no JSON at all, a JSON value that is not an object, or a JSON object whose
\* fields follow.
Request(sig, body, sv, et, pid, id, cur) ==
    [sig |-> sig, body |-> body, schema_version |-> sv, event_type |-> et,
     profile_id |-> pid, id |-> id, currency |-> cur]

Requests ==
    {Request(sig, body, None, None, None, None, None) :
        sig \in {"absent", "malformed", "forged", "valid"},
        body \in {"notjson", "array"}}
    \cup
    {Request(sig, "object", sv, et, pid, id, cur) :
        sig \in {"absent", "malformed", "forged", "valid"},
        sv \in {None, Some("2.0.0"), Some("1.0.0")},
        et \in {None, Some("balances#credit"), Some("transfers#state-change")},
        pid \in {None, Some(1)},
        id \in {None, Some(0), Some(7), Some(8)},
        cur \in {None, Some("GBP"), Some("EUR")}}

\* The events the provider itself delivers for a credited balance
CreditEvents ==
    {Request("valid", "object", Some("2.0.0"), Some("balances#credit"),
             Some(1), Some(id), Some(cur)) : id \in {7, 8}, cur \in {"GBP", "EUR"}}

\* One entry of a statement: details is None when the entry carries none
Entry(type, dtype, ref, amount) ==
    [type |-> type, date |-> "2024-01-01",
     details |-> IF dtype = None THEN None
                 ELSE Some([type |-> dtype[1], paymentReference |-> ref]),
     amount |-> amount]

Entries ==
    {Entry(type, dtype, ref, amount) :
        type \in {"CREDIT", "DEBIT"},
        dtype \in {None, Some("DEPOSIT"), Some("Deposit")},
        ref \in {"INV123", "INV124"},
        amount \in {50, 75}}

SeqsUpTo(S, n) == UNION {[1..k -> S] : k \in 0..n}

Statements == SeqsUpTo(Entries, MaxEntries)

\* The statements of the concurrent deliveries: two credits that share a
\* natural key (their detail types differ in case only, their amounts
\* differ) and one credit with another payment reference
Deposit50 == Entry("CREDIT", Some("DEPOSIT"), "INV123", 50)
Deposit75 == Entry("CREDIT", Some("Deposit"), "INV123", 75)
Other50 == Entry("CREDIT", Some("DEPOSIT"), "INV124", 50)
Refund50 == Entry("DEBIT", Some("DEPOSIT"), "INV123", 50)

SomeStatements ==
    {<<>>, <<Deposit50>>, <<Deposit50, Deposit75>>, <<Other50, Deposit50>>}

\* A response of the provider's statement endpoint. result is the
\* X-2FA-Approval-Result header, challenge the X-2FA-Approval header, body
\* the parsed JSON payload (None when the body is not JSON).
Reply(status, result, challenge, body) ==
    [status |-> status, result |-> result, challenge |-> challenge, body |-> body]

RepliesOver(S) ==
    {Reply(status, result, challenge, None) :
        status \in {200, 403, 500},
        result \in {None, Some("APPROVED"), Some("REJECTED")},
        challenge \in {None, Some("c1")}}
    \cup
    {Reply(status, result, None, Some(s)) :
        status \in {200, 403},
        result \in {None, Some("APPROVED"), Some("REJECTED")},
        s \in S}

Replies == RepliesOver(Statements)

SomeReplies ==
    {Reply(200, Some("APPROVED"), None, Some(s)) : s \in SomeStatements}
    \cup {Reply(403, Some("REJECTED"), Some("c1"), None),
          Reply(500, None, None, None)}

\* ------------------------------------------------------------------- state
VARIABLES
    accounts,       \* BankAccount rows
    transactions,   \* committed BankTransaction rows, in insertion order
    lock,           \* BankAccount id -> the request holding its row lock, or 0
    pc,             \* request -> "idle", "fetch", "lock", "loop", "done"
    request,        \* request -> the inbound HTTP request
    resp,           \* request -> HTTP status answered, 0 while unanswered
    bank_account,   \* request -> the BankAccount found (None before)
    sent,           \* request -> headers of each statement request sent
    replies,        \* request -> the statement responses received
    statement,      \* request -> the statement returned by wise_statement
    idx,            \* request -> position of the loop over the statement
    txns,           \* request -> rows added to the session, uncommitted
    log,            \* request -> the effects performed, in order
    prior,          \* request -> requests already answered when it arrived
    config,         \* the application's TRANSFERWISE_* configuration
    provider,       \* what the provider's API answers
    produced,       \* the result of each discovery run, in order
    validated       \* the result of wise_validate (None before)

webhook_vars == <<accounts, transactions, lock, pc, request, resp,
                  bank_account, sent, replies, statement, idx, txns, log, prior>>

admin_vars == <<config, provider, produced, validated>>

vars == <<accounts, transactions, lock, pc, request, resp, bank_account,
          sent, replies, statement, idx, txns, log, prior,
          config, provider, produced, validated>>

BankAccount(id, bid, cur, active) ==
    [id |-> id, borderless_account_id |-> bid, currency |-> cur, active |-> active]

InitialAccounts ==
    {BankAccount(1, 7, "GBP", TRUE),
     BankAccount(2, 7, "EUR", FALSE),
     BankAccount(3, 8, "GBP", TRUE)}

\* The ids of the rows there are and of those the discovery runs may add
AccountIds == 1..(Cardinality(InitialAccounts) + MaxRuns * MaxBalances)

NoRequest == Request("absent", "notjson", None, None, None, None, None)

\* The configuration: the profile id is a string when set, the token is
\* kept by its length
Config(env, token_len, profile_id) ==
    [TRANSFERWISE_ENVIRONMENT |-> env, TRANSFERWISE_API_TOKEN |-> token_len,
     TRANSFERWISE_PROFILE_ID |-> profile_id]

\* The provider: whether users.me() answers, the profiles it lists, its
\* borderless accounts and the webhook subscriptions
Provider(up, profiles, borderless, subscriptions) ==
    [up |-> up, profiles |-> profiles, borderless |-> borderless,
     subscriptions |-> subscriptions]

Profile(id, type) == [id |-> id, type |-> type]

\* The length of an API token that counts as set
TokenLen == 36

InitWebhook ==
    /\ accounts = InitialAccounts
    /\ transactions = <<>>
    /\ lock = [a \in AccountIds |-> 0]
    /\ pc = [r \in Reqs |-> "idle"]
    /\ request = [r \in Reqs |-> NoRequest]
    /\ resp = [r \in Reqs |-> 0]
    /\ bank_account = [r \in Reqs |-> None]
    /\ sent = [r \in Reqs |-> <<>>]
    /\ replies = [r \in Reqs |-> <<>>]
    /\ statement = [r \in Reqs |-> None]
    /\ idx = [r \in Reqs |-> 0]
    /\ txns = [r \in Reqs |-> <<>>]
    /\ log = [r \in Reqs |-> <<>>]
    /\ prior = [r \in Reqs |-> {}]

InitAdmin ==
    /\ produced = <<>>
    /\ validated = None

Init ==
    /\ InitWebhook
    /\ InitAdmin
    /\ config = Config(Some("live"), TokenLen, None)
    /\ provider = Provider(TRUE, <<Profile(1, "business")>>, <<>>, <<>>)

\* ------------------------------------------------------- webhook receiver
\* The result of the verification is not acted upon
verify_signature_skipped(req) == TRUE

\* pywisetransfer's verify_signature: the signature is the provider's over
\* the raw body
verify_signature(req) == req.sig = "valid"

\* The registry filled by the @webhook decorator
webhook_handlers == {"balances#credit"}

\* Any schema version that is present is accepted
SupportedSchema_any(sv) == sv # None

SupportedSchema(sv) == sv = Some("2.0.0")

\* wise_webhook up to the dispatch: the status it aborts with, or 0 when the
\* request reaches its handler. A body that is JSON but no object passes the
\* parse check and fails on request.json.get outside any try: the framework
\* answers 500.
Validate(req) ==
    IF req.sig \in {"absent", "malformed"} \/ req.body = "notjson" THEN 400
    ELSE IF ~verify_signature(req) THEN 400
    ELSE IF req.body # "object" THEN 500
    ELSE IF ~SupportedSchema(req.schema_version) THEN 500
    ELSE IF req.event_type = None \/ req.event_type[1] \notin webhook_handlers THEN 500
    ELSE 0

\* The except clause lets an HTTPException through with its own status
HandlerRaised_reraised(code) == code

\* abort(code) inside a handler raises an HTTPException, which is an
\* Exception: wise_webhook's except clause answers 500 whatever the code was
HandlerRaised(code) == 500

\* The failure of wise_statement reaches wise_webhook
FetchPropagated(code) == code

\* A failure of wise_statement is caught by the handler, which answers 204
\* (code is the status the exception would give if it left the handler)
FetchFailed(code) == 204

\* ------------------------------------------------- balances#credit handler
\* The currency is checked before the account id is compared with 0
CreditStep_currency_first(event) ==
    IF event.profile_id = None THEN "abort"
    ELSE IF event.id = None THEN "abort"
    ELSE IF event.currency = None THEN "abort"
    ELSE IF event.id = Some(0) THEN "configured"
    ELSE "lookup"

\* The checks of the payload, in the order of the code
CreditStep(event) ==
    IF event.profile_id = None THEN "abort"
    ELSE IF event.id = None THEN "abort"
    ELSE IF event.id = Some(0) THEN "configured"
    ELSE IF event.currency = None THEN "abort"
    ELSE "lookup"

\* The filter leaves out active=True
Matching_any(event, accts) ==
    {a \in accts : /\ a.borderless_account_id = event.id[1]
                   /\ a.currency = event.currency[1]}

\* BankAccount.query.filter_by(borderless_account_id, currency, active=True)
Matching(event, accts) ==
    {a \in accts : /\ a.borderless_account_id = event.id[1]
                   /\ a.currency = event.currency[1]
                   /\ a.active}

\* The request is answered: the worker is done
Answer(r, code, effects) ==
    /\ pc' = [pc EXCEPT ![r] = "done"]
    /\ resp' = [resp EXCEPT ![r] = code]
    /\ log' = [log EXCEPT ![r] = log[r] \o effects]

FirstHeaders == [signature |-> None, challenge |-> None]

\* The row is locked when it is looked up, before the statement is fetched
wise_balance_credit_lock_first(r, event) ==
    LET step == CreditStep(event) IN
    IF step = "abort" THEN
        /\ Answer(r, HandlerRaised(400), <<"handler">>)
        /\ UNCHANGED <<bank_account, sent, lock>>
    ELSE IF step = "configured" THEN
        /\ Answer(r, 204, <<"handler">>)
        /\ UNCHANGED <<bank_account, sent, lock>>
    ELSE IF Matching(event, accounts) = {} THEN
        /\ Answer(r, 204, <<"handler", "lookup">>)
        /\ UNCHANGED <<bank_account, sent, lock>>
    ELSE
        \E a \in Matching(event, accounts) :
            /\ bank_account' = [bank_account EXCEPT ![r] = Some(a.id)]
            /\ sent' = [sent EXCEPT ![r] = <<FirstHeaders>>]
            /\ pc' = [pc EXCEPT ![r] = "fetch"]
            /\ log' = [log EXCEPT ![r] = <<"handler", "lookup", "http">>]
            /\ lock[a.id] = 0
            /\ lock' = [lock EXCEPT ![a.id] = r]
            /\ UNCHANGED resp

wise_balance_credit(r, event) ==
    LET step == CreditStep(event) IN
    IF step = "abort" THEN
        /\ Answer(r, HandlerRaised(400), <<"handler">>)
        /\ UNCHANGED <<bank_account, sent, lock>>
    ELSE IF step = "configured" THEN
        /\ Answer(r, 204, <<"handler">>)
        /\ UNCHANGED <<bank_account, sent, lock>>
    ELSE IF Matching(event, accounts) = {} THEN
        /\ Answer(r, 204, <<"handler", "lookup">>)
        /\ UNCHANGED <<bank_account, sent, lock>>
    ELSE
        \E a \in Matching(event, accounts) :
            /\ bank_account' = [bank_account EXCEPT ![r] = Some(a.id)]
            /\ sent' = [sent EXCEPT ![r] = <<FirstHeaders>>]
            /\ pc' = [pc EXCEPT ![r] = "fetch"]
            /\ log' = [log EXCEPT ![r] = <<"handler", "lookup", "http">>]
            /\ UNCHANGED <<resp, lock>>

\* POST /wise-webhook: validation, dispatch and the handler up to its first
\* statement request
wise_webhook(r, req) ==
    /\ pc[r] = "idle"
    /\ request' = [request EXCEPT ![r] = req]
    /\ prior' = [prior EXCEPT ![r] = {q \in Reqs : pc[q] = "done"}]
    /\ IF Validate(req) # 0 THEN
           /\ Answer(r, Validate(req), <<>>)
           /\ UNCHANGED <<bank_account, sent, lock>>
       ELSE wise_balance_credit(r, req)
    /\ UNCHANGED <<accounts, transactions, replies, statement, idx, txns>>
    /\ UNCHANGED admin_vars

\* ------------------------------------------------------ statement fetcher
\* key.sign(challenge, PKCS1v15, SHA256), base64-encoded
Sign(challenge) == <<"RSA-SHA256", challenge>>

\* Only the status is checked
FinalCheck_status_only(reply) ==
    IF reply.status # 200 THEN "raise"
    ELSE IF reply.body = None THEN "raise"
    ELSE "return"

\* The check of line 196 on the response kept: a missing result header is a
\* KeyError, a body that is no JSON fails in resp.json()
FinalCheck(reply) ==
    IF reply.status # 200 THEN "raise"
    ELSE IF reply.result = None THEN "raise"
    ELSE IF reply.result # Some("APPROVED") THEN "raise"
    ELSE IF reply.body = None THEN "raise"
    ELSE "return"

\* What wise_statement does with the n-th response: send the request again
\* with the signed challenge, raise, or return the payload
StatementOutcome(n, reply) ==
    IF n = 1 /\ reply.status = 403 THEN
        IF reply.result = None THEN "raise"
        ELSE IF reply.result = Some("REJECTED") THEN
            IF reply.challenge = None THEN "raise" ELSE "retry"
        ELSE FinalCheck(reply)
    ELSE FinalCheck(reply)

wise_statement(r, reply) ==
    /\ pc[r] = "fetch"
    /\ replies' = [replies EXCEPT ![r] = Append(replies[r], reply)]
    /\ LET out == StatementOutcome(Len(sent[r]), reply) IN
       IF out = "retry" THEN
           /\ sent' = [sent EXCEPT ![r] = Append(sent[r],
                          [signature |-> Some(Sign(reply.challenge[1])),
                           challenge |-> reply.challenge])]
           /\ log' = [log EXCEPT ![r] = Append(log[r], "http")]
           /\ UNCHANGED <<pc, resp, statement>>
       ELSE IF out = "raise" THEN
           /\ Answer(r, FetchFailed(500), <<>>)
           /\ UNCHANGED <<sent, statement>>
       ELSE
           /\ statement' = [statement EXCEPT ![r] = reply.body]
           /\ pc' = [pc EXCEPT ![r] = "lock"]
           /\ UNCHANGED <<sent, resp, log>>
    /\ UNCHANGED <<accounts, transactions, lock, request, bank_account, idx,
                   txns, prior>>
    /\ UNCHANGED admin_vars

\* ---------------------------------------------------------- reconciliation
\* A plain get(id): no row lock is waited for
LockAccount_unlocked(r) ==
    /\ pc[r] = "lock"
    /\ lock' = [lock EXCEPT ![bank_account[r][1]] = r]
    /\ pc' = [pc EXCEPT ![r] = "loop"]
    /\ idx' = [idx EXCEPT ![r] = 1]
    /\ log' = [log EXCEPT ![r] = Append(log[r], "lock")]
    /\ UNCHANGED <<accounts, transactions, request, resp, bank_account, sent,
                   replies, statement, txns, prior>>
    /\ UNCHANGED admin_vars

\* BankAccount.query.with_for_update().get(id): waits while another
\* transaction holds the row lock
LockAccount(r) ==
    /\ pc[r] = "lock"
    /\ lock[bank_account[r][1]] = 0
    /\ lock' = [lock EXCEPT ![bank_account[r][1]] = r]
    /\ pc' = [pc EXCEPT ![r] = "loop"]
    /\ idx' = [idx EXCEPT ![r] = 1]
    /\ log' = [log EXCEPT ![r] = Append(log[r], "lock")]
    /\ UNCHANGED <<accounts, transactions, request, resp, bank_account, sent,
                   replies, statement, txns, prior>>
    /\ UNCHANGED admin_vars

\* str.lower() on the detail types the provider sends
Lower(s) ==
    CASE s = "DEPOSIT" -> "deposit"
      [] s = "Deposit" -> "deposit"
      [] OTHER -> s

Range(seq) == {seq[i] : i \in 1..Len(seq)}

\* The query sees the committed rows only
Visible_committed(r) == Range(transactions)

\* The rows a query of request r sees: the committed ones and those its own
\* session has added (flushed before the query)
Visible(r) == Range(transactions) \cup Range(txns[r])

\* The filter compares the detail type as sent, not lower-cased
FindTransaction_raw_type(rows, account_id, t) ==
    {row \in rows : /\ row.account_id = account_id
                    /\ row.posted = t.date
                    /\ row.type = t.details[1].type
                    /\ row.payee = t.details[1].paymentReference}

\* BankTransaction.query.filter_by(account_id, posted, type, payee).first()
FindTransaction(rows, account_id, t) ==
    {row \in rows : /\ row.account_id = account_id
                    /\ row.posted = t.date
                    /\ row.type = Lower(t.details[1].type)
                    /\ row.payee = t.details[1].paymentReference}

\* The row keeps the detail type as sent
BankTransaction_raw_type(account_id, t) ==
    [account_id |-> account_id, posted |-> t.date,
     type |-> t.details[1].type, amount |-> t.amount,
     payee |-> t.details[1].paymentReference]

BankTransaction(account_id, t) ==
    [account_id |-> account_id, posted |-> t.date,
     type |-> Lower(t.details[1].type), amount |-> t.amount,
     payee |-> t.details[1].paymentReference]

\* Each new row is committed as soon as it is added
ReconcileEntry_commit_each(r) ==
    /\ pc[r] = "loop"
    /\ idx[r] <= Len(statement[r][1])
    /\ LET t == statement[r][1][idx[r]]
           a == bank_account[r][1]
       IN
       IF t.type # "CREDIT" THEN
           /\ idx' = [idx EXCEPT ![r] = idx[r] + 1]
           /\ UNCHANGED <<pc, resp, lock, txns, log, transactions>>
       ELSE IF t.details = None THEN
           /\ Answer(r, HandlerRaised(500), <<"rollback">>)
           /\ lock' = [lock EXCEPT ![a] = 0]
           /\ UNCHANGED <<idx, txns, transactions>>
       ELSE IF FindTransaction(Visible(r), a, t) # {} THEN
           /\ idx' = [idx EXCEPT ![r] = idx[r] + 1]
           /\ log' = [log EXCEPT ![r] = Append(log[r], "query")]
           /\ UNCHANGED <<pc, resp, lock, txns, transactions>>
       ELSE
           /\ idx' = [idx EXCEPT ![r] = idx[r] + 1]
           /\ transactions' = Append(transactions, BankTransaction(a, t))
           /\ log' = [log EXCEPT ![r] = log[r] \o <<"query", "add", "commit">>]
           /\ UNCHANGED <<pc, resp, lock, txns>>
    /\ UNCHANGED <<accounts, request, bank_account, sent, replies, statement,
                   prior>>
    /\ UNCHANGED admin_vars

\* One iteration of the loop over statement.transactions
ReconcileEntry(r) ==
    /\ pc[r] = "loop"
    /\ idx[r] <= Len(statement[r][1])
    /\ LET t == statement[r][1][idx[r]]
           a == bank_account[r][1]
       IN
       IF t.type # "CREDIT" THEN
           /\ idx' = [idx EXCEPT ![r] = idx[r] + 1]
           /\ UNCHANGED <<pc, resp, lock, txns, log>>
       ELSE IF t.details = None THEN
           \* AttributeError: the session is rolled back with the request
           /\ Answer(r, HandlerRaised(500), <<"rollback">>)
           /\ lock' = [lock EXCEPT ![a] = 0]
           /\ UNCHANGED <<idx, txns>>
       ELSE IF FindTransaction(Visible(r), a, t) # {} THEN
           /\ idx' = [idx EXCEPT ![r] = idx[r] + 1]
           /\ log' = [log EXCEPT ![r] = Append(log[r], "query")]
           /\ UNCHANGED <<pc, resp, lock, txns>>
       ELSE
           /\ idx' = [idx EXCEPT ![r] = idx[r] + 1]
           /\ txns' = [txns EXCEPT ![r] = Append(txns[r], BankTransaction(a, t))]
           /\ log' = [log EXCEPT ![r] = log[r] \o <<"query", "add">>]
           /\ UNCHANGED <<pc, resp, lock>>
    /\ UNCHANGED <<accounts, transactions, request, bank_account, sent,
                   replies, statement, prior>>
    /\ UNCHANGED admin_vars

\* db.session.commit() after the loop, and the 204 answer
Commit(r) ==
    /\ pc[r] = "loop"
    /\ idx[r] > Len(statement[r][1])
    /\ transactions' = transactions \o txns[r]
    /\ lock' = [lock EXCEPT ![bank_account[r][1]] = 0]
    /\ Answer(r, 204, <<"commit">>)
    /\ UNCHANGED <<accounts, request, bank_account, sent, replies, statement,
                   idx, txns, prior>>
    /\ UNCHANGED admin_vars

\* ------------------------------------------------------- account discovery
\* A string whose characters matter is a sequence of one-character strings
SortCodeNumberLen == 8

\* str.replace(" ", "")
RemoveSpaces(str) == SelectSeq(str, LAMBDA c : c # " ")

\* The last characters of the string: str[-n:]
Tail_n(str, n) ==
    IF Len(str) <= n THEN str ELSE SubSeq(str, Len(str) - n + 1, Len(str))

\* The account number is cut before its spaces are removed
AccountNumber_cut_first(raw) ==
    IF Len(raw) = SortCodeNumberLen THEN raw
    ELSE RemoveSpaces(Tail_n(raw, SortCodeNumberLen))

\* The account number of a GBP balance: as sent when it has 8 characters,
\* else the end of what is taken for an IBAN
AccountNumber(raw) ==
    IF Len(raw) = SortCodeNumberLen THEN raw
    ELSE Tail_n(RemoveSpaces(raw), SortCodeNumberLen)

\* ", ".join([addressFirstLine, city + " " + (postCode or ""), country])
Address(a) ==
    a.addressFirstLine \o ", "
    \o (a.city \o " " \o (IF a.postCode = None THEN "" ELSE a.postCode[1]))
    \o ", " \o a.country

\* The BankAccount made of the bank details d of a balance
CollectedAccount(borderless_id, d, active) ==
    [sort_code |-> IF d.currency = "GBP" THEN Some(d.bankCode) ELSE None,
     acct_id |-> IF d.currency = "GBP" THEN Some(AccountNumber(d.accountNumber))
                 ELSE None,
     currency |-> d.currency,
     active |-> active,
     institution |-> d.bankName,
     address |-> Address(d.bankAddress[1]),
     swift |-> d.swift,
     iban |-> d.iban,
     borderless_account_id |-> borderless_id]

\* Every discovered account is made active
Collect_active(borderless_id, balance) ==
    IF balance.bankDetails = None THEN <<>>
    ELSE IF balance.bankDetails[1].bankAddress = None THEN <<>>
    ELSE <<CollectedAccount(borderless_id, balance.bankDetails[1], TRUE)>>

\* One iteration of _collect_bank_accounts: nothing for a balance without
\* bank details or without a bank address, else its BankAccount
Collect(borderless_id, balance) ==
    IF balance.bankDetails = None THEN <<>>
    ELSE IF balance.bankDetails[1].bankAddress = None THEN <<>>
    ELSE <<CollectedAccount(borderless_id, balance.bankDetails[1], FALSE)>>

RECURSIVE CollectFrom(_, _, _)
CollectFrom(borderless_id, balances, i) ==
    IF i > Len(balances) THEN <<>>
    ELSE Collect(borderless_id, balances[i])
         \o CollectFrom(borderless_id, balances, i + 1)

_collect_bank_accounts(borderless_account) ==
    CollectFrom(borderless_account.id, borderless_account.balances, 1)

\* int() of the configured profile id
ParseInt(str) ==
    CASE str = "1" -> 1
      [] str = "2" -> 2

\* client.borderless_accounts.list(profile_id=id)
ListBorderless(prov, id) ==
    SelectSeq(prov.borderless, LAMBDA b : b.profile_id = id)

\* filter(lambda p: p.type == "business", profiles)
BusinessProfiles(prov) ==
    SelectSeq(prov.profiles, LAMBDA p : p.type = "business")

\* The first business profile is taken however many there are
wise_business_profile_first(cfg, prov) ==
    IF cfg.TRANSFERWISE_PROFILE_ID # None THEN
        LET id == ParseInt(cfg.TRANSFERWISE_PROFILE_ID[1]) IN
        [raised |-> ListBorderless(prov, id) = <<>>, id |-> id]
    ELSE
        LET profiles == BusinessProfiles(prov) IN
        IF profiles = <<>> THEN [raised |-> TRUE, id |-> 0]
        ELSE [raised |-> FALSE, id |-> profiles[1].id]

\* wise_business_profile: the id, or an exception (raised). With no
\* business profile listed, profiles[0] is an IndexError.
wise_business_profile(cfg, prov) ==
    IF cfg.TRANSFERWISE_PROFILE_ID # None THEN
        LET id == ParseInt(cfg.TRANSFERWISE_PROFILE_ID[1]) IN
        [raised |-> ListBorderless(prov, id) = <<>>, id |-> id]
    ELSE
        LET profiles == BusinessProfiles(prov) IN
        IF Len(profiles) > 1 THEN [raised |-> TRUE, id |-> 0]
        ELSE IF profiles = <<>> THEN [raised |-> TRUE, id |-> 0]
        ELSE [raised |-> FALSE, id |-> profiles[1].id]

RECURSIVE CollectAll(_, _)
CollectAll(borderless_accounts, i) ==
    IF i > Len(borderless_accounts) THEN <<>>
    ELSE _collect_bank_accounts(borderless_accounts[i])
         \o CollectAll(borderless_accounts, i + 1)

\* wise_retrieve_accounts, iterated to its end: the profile id it resolved
\* and the BankAccounts it yielded, or the exception
wise_retrieve_accounts(cfg, prov) ==
    LET business_profile == wise_business_profile(cfg, prov) IN
    IF business_profile.raised THEN
        [raised |-> TRUE, profile |-> None, bank_accounts |-> <<>>]
    ELSE IF business_profile.id = 0 THEN
        [raised |-> FALSE, profile |-> Some(0), bank_accounts |-> <<>>]
    ELSE
        [raised |-> FALSE, profile |-> Some(business_profile.id),
         bank_accounts |-> CollectAll(ListBorderless(prov, business_profile.id), 1)]

\* The rows stored for the accounts of a run: each gets the next id. The
\* webhook path reads the id, the borderless account id, the currency and
\* the active flag of a row.
Stored(rows, first_id) ==
    {BankAccount(first_id + i - 1, rows[i].borderless_account_id,
                 rows[i].currency, rows[i].active) : i \in 1..Len(rows)}

\* One run of the discovery: the accounts retrieved are added to the table
Discover ==
    /\ Len(produced) < MaxRuns
    /\ LET run == wise_retrieve_accounts(config, provider) IN
       /\ produced' = Append(produced, run)
       /\ accounts' = accounts \cup Stored(run.bank_accounts, Cardinality(accounts) + 1)
    /\ UNCHANGED <<transactions, lock, pc, request, resp, bank_account, sent,
                   replies, statement, idx, txns, log, prior>>
    /\ UNCHANGED <<config, provider, validated>>

\* ------------------------------------------------------------ health check
\* One entry of the result list
Result(ok, message) == [ok |-> ok, message |-> message]

\* wise_validate: the calls it made (probes), the list it returned (result),
\* or the exception of wise_business_profile (raised, and no list)
Validation(cfg, prov) ==
    IF cfg.TRANSFERWISE_ENVIRONMENT \notin {Some("sandbox"), Some("live")} THEN
        [raised |-> FALSE, probes |-> <<"environment">>,
         result |-> <<Result(FALSE, "No environment configured")>>]
    ELSE
    LET env == Result(TRUE, IF cfg.TRANSFERWISE_ENVIRONMENT = Some("sandbox")
                            THEN "Sandbox environment being used"
                            ELSE "Live environment being used") IN
    IF cfg.TRANSFERWISE_API_TOKEN # TokenLen THEN
        [raised |-> FALSE, probes |-> <<"environment", "token">>,
         result |-> <<env, Result(FALSE, "Access token not set")>>]
    ELSE
    LET token == Result(TRUE, "Access token set") IN
    IF ~prov.up THEN
        [raised |-> FALSE, probes |-> <<"environment", "token", "users.me">>,
         result |-> <<env, token, Result(FALSE, "Unable to connect to Wise")>>]
    ELSE
    LET me == Result(TRUE, "Connection to Wise API succeeded")
        business_profile == wise_business_profile(cfg, prov) IN
    IF business_profile.raised THEN
        [raised |-> TRUE,
         probes |-> <<"environment", "token", "users.me", "business_profile">>,
         result |-> <<>>]
    ELSE
        [raised |-> FALSE,
         probes |-> <<"environment", "token", "users.me", "business_profile",
                      "subscriptions">>,
         result |-> <<env, token, me,
                      IF business_profile.id # 0
                      THEN Result(TRUE, "Wise business profile exists")
                      ELSE Result(FALSE, "Wise business profile does not exist"),
                      IF prov.subscriptions # <<>>
                      THEN Result(TRUE, "Webhook event subscriptions are present")
                      ELSE Result(FALSE, "Webhook event subscriptions are not present")>>]

\* One run of the health check
wise_validate ==
    /\ validated = None
    /\ validated' = Some(Validation(config, provider))
    /\ UNCHANGED webhook_vars
    /\ UNCHANGED <<config, provider, produced>>

\* ---------------------------------------------------------- specifications
\* Concurrent deliveries of the provider's credit events
Next ==
    \E r \in Reqs :
        \/ pc[r] = "idle" /\ \E req \in CreditEvents : wise_webhook(r, req)
        \/ pc[r] = "fetch" /\ \E reply \in SomeReplies : wise_statement(r, reply)
        \/ LockAccount(r)
        \/ ReconcileEntry(r)
        \/ Commit(r)

Spec == Init /\ [][Next]_vars

\* One request of any shape, against any response of the provider
NextReceiver ==
    \/ pc[1] = "idle" /\ \E req \in Requests : wise_webhook(1, req)
    \/ pc[1] = "fetch" /\ \E reply \in Replies : wise_statement(1, reply)
    \/ LockAccount(1)
    \/ ReconcileEntry(1)
    \/ Commit(1)

SpecReceiver == Init /\ [][NextReceiver]_vars

\* The provider's data for the discovery
BankAddress(postCode) ==
    [addressFirstLine |-> "56 Shoreditch High Street", city |-> "London",
     postCode |-> postCode, country |-> "United Kingdom"]

BankDetails(currency, accountNumber, bankAddress) ==
    [currency |-> currency, bankCode |-> "23-14-70",
     accountNumber |-> accountNumber, bankName |-> "Wise",
     bankAddress |-> bankAddress, swift |-> Some("TRWIGB22"), iban |-> None]

Balance(bankDetails) == [bankDetails |-> bankDetails]

Borderless(id, profile_id, balances) ==
    [id |-> id, profile_id |-> profile_id, balances |-> balances]

Iban ==
    <<"G", "B", "3", "3", " ", "T", "R", "W", "I", " ", "2", "3", "1", "4",
      " ", "7", "0", "1", "2", " ", "3", "4", "5", "6", " ", "7", "8">>

EightDigits == <<"1", "2", "3", "4", "5", "6", "7", "8">>

AccountNumbers == SeqsUpTo({"1", "2", " "}, MaxNumberLen) \cup {Iban, EightDigits}

CollectBalances ==
    {Balance(Some(BankDetails("GBP", n, Some(BankAddress(Some("E1 6JJ")))))) :
        n \in AccountNumbers}
    \cup
    {Balance(Some(BankDetails("EUR", n, Some(BankAddress(postCode))))) :
        n \in {Iban, EightDigits}, postCode \in {None, Some("E1 6JJ")}}
    \cup
    {Balance(None), Balance(Some(BankDetails("GBP", EightDigits, None)))}

GbpBalance == Balance(Some(BankDetails("GBP", EightDigits, Some(BankAddress(None)))))
EurBalance == Balance(Some(BankDetails("EUR", Iban, Some(BankAddress(None)))))

\* The discovery of one balance, for every shape of its bank details
InitCollect ==
    /\ InitWebhook
    /\ InitAdmin
    /\ config = Config(Some("live"), TokenLen, Some("1"))
    /\ \E b \in CollectBalances :
           provider = Provider(TRUE, <<>>, <<Borderless(9, 1, <<b>>)>>, <<>>)

SpecCollect == InitCollect /\ [][Discover]_vars

\* The discovery for every listing of profiles, with and without a
\* configured profile id
Profiles ==
    SeqsUpTo({Profile(id, type) : id \in {0, 1, 2},
                                  type \in {"business", "personal"}},
             MaxProfiles)

InitProfile ==
    /\ InitWebhook
    /\ InitAdmin
    /\ \E id \in {None, Some("1"), Some("2")} :
           config = Config(Some("live"), TokenLen, id)
    /\ \E profiles \in Profiles :
       \E borderless \in {<<>>, <<Borderless(9, 1, <<GbpBalance>>)>>,
                          <<Borderless(9, 1, <<GbpBalance>>),
                            Borderless(10, 2, <<EurBalance>>)>>} :
           provider = Provider(TRUE, profiles, borderless, <<>>)

SpecProfile == InitProfile /\ [][Discover]_vars

\* Discovery runs among webhook deliveries: the provider holds one
\* borderless account, of a group the table knows (7) or not (9)
InitDiscovery ==
    /\ InitWebhook
    /\ InitAdmin
    /\ config = Config(Some("live"), TokenLen, None)
    /\ \E id \in {7, 9} :
       \E balances \in SeqsUpTo({GbpBalance, EurBalance, Balance(None)}, MaxBalances) :
           provider = Provider(TRUE, <<Profile(1, "business")>>,
                               <<Borderless(id, 1, balances)>>, <<>>)

DiscoveryEvents ==
    {Request("valid", "object", Some("2.0.0"), Some("balances#credit"),
             Some(1), Some(id), Some(cur)) : id \in {7, 9}, cur \in {"GBP", "EUR"}}

DiscoveryReplies ==
    {Reply(200, Some("APPROVED"), None, Some(<<Deposit50>>)),
     Reply(500, None, None, None)}

NextDiscovery ==
    \/ Discover
    \/ \E r \in Reqs :
        \/ pc[r] = "idle" /\ \E req \in DiscoveryEvents : wise_webhook(r, req)
        \/ pc[r] = "fetch" /\ \E reply \in DiscoveryReplies : wise_statement(r, reply)
        \/ LockAccount(r)
        \/ ReconcileEntry(r)
        \/ Commit(r)

SpecDiscovery == InitDiscovery /\ [][NextDiscovery]_vars

\* The health check for every configuration and every state of the provider
InitValidate ==
    /\ InitWebhook
    /\ InitAdmin
    /\ \E env \in {None, Some("sandbox"), Some("live"), Some("test")} :
       \E token_len \in {0, TokenLen - 1, TokenLen} :
       \E id \in {None, Some("1")} :
           config = Config(env, token_len, id)
    /\ \E up \in BOOLEAN :
       \E profiles \in Profiles :
       \E borderless \in {<<>>, <<Borderless(9, 1, <<GbpBalance>>)>>} :
       \E subscriptions \in {<<>>, <<"balances#credit">>} :
           provider = Provider(up, profiles, borderless, subscriptions)

SpecValidate == InitValidate /\ [][wise_validate]_vars

\* Concurrent deliveries for one account, with statements that hold
\* entries of both types
ReconcileEvents ==
    {Request("valid", "object", Some("2.0.0"), Some("balances#credit"),
             Some(1), Some(7), Some("GBP"))}

ReconcileStatements ==
    {<<Deposit50>>, <<Refund50, Deposit50>>, <<Deposit50, Deposit75>>,
     <<Other50, Refund50>>, <<Refund50>>}

ReconcileReplies ==
    {Reply(200, Some("APPROVED"), None, Some(s)) : s \in ReconcileStatements}

NextReconcile ==
    \E r \in Reqs :
        \/ pc[r] = "idle" /\ \E req \in ReconcileEvents : wise_webhook(r, req)
        \/ pc[r] = "fetch" /\ \E reply \in ReconcileReplies : wise_statement(r, reply)
        \/ LockAccount(r)
        \/ ReconcileEntry(r)
        \/ Commit(r)

SpecReconcile == Init /\ [][NextReconcile]_vars

\* ------------------------------------------------------------- properties
Did(r, effect) == effect \in Range(log[r])

Committed(r) == pc[r] = "done" /\ Did(r, "commit")

\* A request that passes the receiver's checks and is a balances#credit event
IsCreditEvent(req) ==
    /\ req.sig = "valid"
    /\ req.body = "object"
    /\ req.schema_version = Some("2.0.0")
    /\ req.event_type = Some("balances#credit")

\* The natural key of a row
Key(row) == <<row.account_id, row.posted, row.type, row.payee>>

\* C1: when a delivery arrives after another delivery for the same account
\* and with the same statement was answered and committed, it adds no row to
\* its session at any point of its loop, so its commit leaves the rows as
\* they were, and it is answered 204.
C1_Idempotent ==
    \A r \in Reqs : \A q \in prior[r] :
        (/\ Committed(q)
         /\ statement[r] # None
         /\ statement[q] = statement[r]
         /\ bank_account[q] = bank_account[r])
        => /\ txns[r] = <<>>
           /\ pc[r] = "done" => resp[r] = 204

\* C1 witness: a second delivery of a statement with credits, committed
\* after the first had created rows, has created none
C1_Witness ==
    \E r \in Reqs : \E q \in prior[r] :
        /\ Committed(q) /\ Committed(r)
        /\ statement[q] = statement[r]
        /\ bank_account[q] = bank_account[r]
        /\ Len(txns[q]) = 2
        /\ txns[r] = <<>>
        /\ resp[r] = 204

\* C2: at most one request is between acquiring the row lock of an account
\* and its commit: two requests in their loop are on different accounts, and
\* a request in its loop holds the lock of its account.
C2_MutualExclusion ==
    \A r \in Reqs :
        pc[r] = "loop" =>
            /\ lock[bank_account[r][1]] = r
            /\ \A q \in Reqs \ {r} :
                   pc[q] = "loop" => bank_account[q] # bank_account[r]

\* C2 witness: one request is in its loop with a row staged while another
\* for the same account has its statement and waits for the lock
C2_Witness ==
    \E r \in Reqs : \E q \in Reqs \ {r} :
        /\ pc[r] = "loop" /\ txns[r] # <<>>
        /\ pc[q] = "lock"
        /\ bank_account[q] = bank_account[r]

\* C3: no two committed BankTransaction rows share the natural key
\* (account, posted date, type, payee).
C3_NaturalKeyUnique ==
    \A i \in 1..Len(transactions) : \A j \in 1..Len(transactions) :
        i # j => Key(transactions[i]) # Key(transactions[j])

\* C3 witness: two deliveries for one account have committed, one of them
\* with a statement whose two credits share a key, and one row exists
C3_Witness ==
    \E r \in Reqs : \E q \in Reqs \ {r} :
        /\ Committed(r) /\ Committed(q)
        /\ bank_account[q] = bank_account[r]
        /\ statement[r] = Some(<<Deposit50, Deposit75>>)
        /\ statement[q] = Some(<<Deposit50>>)
        /\ Len(transactions) = 1

\* C4: a request whose X-Signature is absent, not base64 or not the
\* signature of the body is answered 400; no handler runs, no BankAccount is
\* looked up and nothing is written.
C4_BadSignatureRejected ==
    \A r \in Reqs :
        (pc[r] # "idle" /\ request[r].sig # "valid")
        => /\ pc[r] = "done"
           /\ resp[r] = 400
           /\ log[r] = <<>>
           /\ bank_account[r] = None
           /\ txns[r] = <<>>
           /\ transactions = <<>>
           /\ accounts = InitialAccounts

\* C4 witness: an otherwise well-formed credit event for an active account
\* with a forged signature was answered 400
C4_Witness ==
    \E r \in Reqs :
        /\ pc[r] = "done"
        /\ request[r] = Request("forged", "object", Some("2.0.0"),
                                Some("balances#credit"), Some(1), Some(7),
                                Some("GBP"))
        /\ resp[r] = 400

\* C5 as stated: every request whose schema_version is not "2.0.0" is
\* answered 500 and no handler runs.
C5_AnyRequest ==
    \A r \in Reqs :
        (pc[r] # "idle" /\ request[r].schema_version # Some("2.0.0"))
        => /\ pc[r] = "done"
           /\ resp[r] = 500
           /\ ~Did(r, "handler")

\* C5 amended: for a request whose schema_version is not "2.0.0" no handler
\* runs; it is answered 500 when its signature is valid and its body is
\* JSON, and 400 otherwise.
C5_UnsupportedSchema ==
    \A r \in Reqs :
        (pc[r] # "idle" /\ request[r].schema_version # Some("2.0.0"))
        => /\ pc[r] = "done"
           /\ log[r] = <<>>
           /\ resp[r] = IF request[r].sig = "valid" /\ request[r].body # "notjson"
                        THEN 500 ELSE 400

\* C5 witness: a validly signed credit event of schema 1.0.0 was answered 500
C5_Witness ==
    \E r \in Reqs :
        /\ pc[r] = "done"
        /\ request[r] = Request("valid", "object", Some("1.0.0"),
                                Some("balances#credit"), Some(1), Some(7),
                                Some("GBP"))
        /\ resp[r] = 500

\* C6: a balances#credit event that lacks profile_id, the account id or the
\* currency is answered 400 and nothing is written.
C6_MissingFieldIs400 ==
    \A r \in Reqs :
        (/\ pc[r] = "done"
         /\ IsCreditEvent(request[r])
         /\ \/ request[r].profile_id = None
            \/ request[r].id = None
            \/ request[r].currency = None)
        => /\ resp[r] = 400
           /\ txns[r] = <<>>
           /\ transactions = <<>>

\* C7 as stated: a balances#credit event with account id 0 is answered 204,
\* with no lookup, no fetch and no row, whatever its other fields.
C7_AnyPayload ==
    \A r \in Reqs :
        (/\ pc[r] # "idle"
         /\ IsCreditEvent(request[r])
         /\ request[r].id = Some(0))
        => /\ pc[r] = "done"
           /\ resp[r] = 204
           /\ log[r] = <<"handler">>
           /\ sent[r] = <<>>
           /\ txns[r] = <<>>
           /\ transactions = <<>>

\* C7 amended: a balances#credit event with account id 0 causes no lookup,
\* no fetch and no row, whatever its other fields; it is answered 204 when
\* its profile_id is present, whatever its currency.
C7_ConfiguredEvent ==
    \A r \in Reqs :
        (/\ pc[r] # "idle"
         /\ IsCreditEvent(request[r])
         /\ request[r].id = Some(0))
        => /\ pc[r] = "done"
           /\ log[r] = <<"handler">>
           /\ sent[r] = <<>>
           /\ bank_account[r] = None
           /\ txns[r] = <<>>
           /\ transactions = <<>>
           /\ request[r].profile_id # None => resp[r] = 204

\* C7 witness: an event with account id 0, a profile_id and no currency was
\* answered 204
C7_Witness ==
    \E r \in Reqs :
        /\ pc[r] = "done"
        /\ IsCreditEvent(request[r])
        /\ request[r].id = Some(0)
        /\ request[r].profile_id = Some(1)
        /\ request[r].currency = None
        /\ resp[r] = 204

\* C8: a balances#credit event with profile_id, a non-zero account id and a
\* currency that match no active BankAccount is answered 204 with no
\* statement request, no lock and nothing written.
C8_NoActiveAccount ==
    \A r \in Reqs :
        (/\ pc[r] # "idle"
         /\ IsCreditEvent(request[r])
         /\ request[r].profile_id # None
         /\ request[r].id \notin {None, Some(0)}
         /\ request[r].currency # None
         /\ ~\E a \in accounts :
                /\ Some(a.borderless_account_id) = request[r].id
                /\ Some(a.currency) = request[r].currency
                /\ a.active)
        => /\ pc[r] = "done"
           /\ resp[r] = 204
           /\ log[r] = <<"handler", "lookup">>
           /\ sent[r] = <<>>
           /\ txns[r] = <<>>
           /\ transactions = <<>>
           /\ accounts = InitialAccounts
           /\ \A a \in AccountIds : lock[a] = 0

\* C8 witness: an event for an account that exists but is inactive was
\* answered 204
C8_Witness ==
    \E r \in Reqs :
        /\ pc[r] = "done"
        /\ IsCreditEvent(request[r])
        /\ request[r].profile_id = Some(1)
        /\ request[r].id = Some(7)
        /\ request[r].currency = Some("EUR")
        /\ resp[r] = 204

\* The response ends wise_statement with the payload
Approved(reply) ==
    /\ reply.status = 200
    /\ reply.result = Some("APPROVED")
    /\ reply.body # None

\* The first response demands the signed challenge
Challenged(reply) ==
    /\ reply.status = 403
    /\ reply.result = Some("REJECTED")
    /\ reply.challenge # None

Last(seq) == seq[Len(seq)]

\* Every request sent was answered, and the last response is not the payload
FetchHasFailed(r) ==
    /\ replies[r] # <<>>
    /\ Len(replies[r]) = Len(sent[r])
    /\ ~Approved(Last(replies[r]))

\* C9: when the statement fetch fails, the request is answered 204, no row
\* lock is taken, no BankTransaction is created and nothing is committed.
C9_FetchFailureAbsorbed ==
    \A r \in Reqs :
        FetchHasFailed(r)
        => /\ pc[r] = "done"
           /\ resp[r] = 204
           /\ ~Did(r, "lock")
           /\ ~Did(r, "commit")
           /\ txns[r] = <<>>
           /\ transactions = <<>>
           /\ \A a \in AccountIds : lock[a] = 0

\* C9 witness: the provider answered the statement request of an event for
\* an active account with 500, and the event was answered 204
C9_Witness ==
    \E r \in Reqs :
        /\ pc[r] = "done"
        /\ bank_account[r] # None
        /\ Len(replies[r]) = 1
        /\ replies[r][1].status = 500
        /\ resp[r] = 204

\* C10: wise_statement sends at most two requests; the second only after a
\* first response of 403 with a REJECTED result, carrying the challenge and
\* its signature; a statement is returned only when the last response is 200
\* with an APPROVED result, and otherwise the call has failed and sends
\* nothing more.
C10_StatementRequests ==
    \A r \in Reqs :
        /\ Len(sent[r]) <= 2
        /\ Len(replies[r]) <= Len(sent[r])
        /\ Len(sent[r]) = 2 =>
               /\ replies[r] # <<>>
               /\ replies[r][1].status = 403
               /\ replies[r][1].result = Some("REJECTED")
               /\ sent[r][2].challenge = replies[r][1].challenge
               /\ sent[r][2].signature = Some(<<"RSA-SHA256", replies[r][1].challenge[1]>>)
        /\ statement[r] # None =>
               /\ Len(replies[r]) = Len(sent[r])
               /\ Last(replies[r]).status = 200
               /\ Last(replies[r]).result = Some("APPROVED")
               /\ statement[r] = Last(replies[r]).body
        /\ (/\ replies[r] # <<>>
            /\ \/ Last(replies[r]).status # 200
               \/ Last(replies[r]).result # Some("APPROVED")
            /\ ~(Len(replies[r]) = 1 /\ Challenged(replies[r][1])))
           => /\ statement[r] = None
              /\ pc[r] = "done"
              /\ Len(sent[r]) = Len(replies[r])

\* C10 witness: a statement was returned by the second request, sent after
\* the challenge
C10_Witness ==
    \E r \in Reqs :
        /\ statement[r] # None
        /\ Len(sent[r]) = 2
        /\ Len(replies[r]) = 2

\* The loop over the statement meets a CREDIT entry without details
HasBrokenCredit(stmt) ==
    \E i \in 1..Len(stmt) : stmt[i].type = "CREDIT" /\ stmt[i].details = None

\* C11: a validly signed request of schema 2.0.0 whose event type has a
\* handler is answered 500 when the handler fails (it aborts on a missing
\* field, or an entry of the statement lacks its details); one whose event
\* type has no handler is answered 500 and no handler runs.
C11_HandlerFailureIs500 ==
    \A r \in Reqs :
        /\ (/\ pc[r] = "done"
            /\ IsCreditEvent(request[r])
            /\ \/ request[r].profile_id = None
               \/ request[r].id = None
               \/ request[r].id # Some(0) /\ request[r].currency = None
               \/ statement[r] # None /\ HasBrokenCredit(statement[r][1]))
           => resp[r] = 500 /\ Did(r, "handler")
        /\ (/\ pc[r] # "idle"
            /\ request[r].sig = "valid"
            /\ request[r].body = "object"
            /\ request[r].schema_version = Some("2.0.0")
            /\ request[r].event_type # Some("balances#credit"))
           => pc[r] = "done" /\ resp[r] = 500 /\ log[r] = <<>>

\* C11 witness: the handler failed on the second entry of a statement after
\* it had staged a row for the first, and the request was answered 500
C11_Witness ==
    \E r \in Reqs :
        /\ pc[r] = "done"
        /\ statement[r] # None
        /\ Len(statement[r][1]) = 2
        /\ statement[r][1][2].type = "CREDIT"
        /\ statement[r][1][2].details = None
        /\ Len(txns[r]) = 1
        /\ resp[r] = 500

\* The BankAccount rows an event's lookup may return
LookedUp(req) ==
    {a \in accounts : /\ Some(a.borderless_account_id) = req.id
                      /\ Some(a.currency) = req.currency
                      /\ a.active = TRUE}

\* C12: every step of the webhook path leaves the BankAccount rows and the
\* existing BankTransaction rows as they are; the rows it appends are those
\* of one request that commits, and each belongs to the one active account
\* its event's (account id, currency) matched.
C12_OnlyAddsRows ==
    [][/\ accounts' = accounts
       /\ Len(transactions') >= Len(transactions)
       /\ SubSeq(transactions', 1, Len(transactions)) = transactions
       /\ Len(transactions') > Len(transactions) =>
              \E r \in Reqs :
                  /\ pc[r] = "loop" /\ pc'[r] = "done"
                  /\ Cardinality(LookedUp(request[r])) = 1
                  /\ \A i \in Len(transactions) + 1..Len(transactions') :
                         \E a \in LookedUp(request[r]) :
                             transactions'[i].account_id = a.id]_vars

\* C12 witness: rows of two accounts are committed, by two deliveries
C12_Witness ==
    \E r \in Reqs : \E q \in Reqs \ {r} :
        /\ Committed(r) /\ Committed(q)
        /\ bank_account[r] = Some(1) /\ bank_account[q] = Some(3)
        /\ \E i \in 1..Len(transactions) : transactions[i].account_id = 1
        /\ \E i \in 1..Len(transactions) : transactions[i].account_id = 3

\* An account id the table did not hold before the discovery ran
Discovered(id) == id \notin {a.id : a \in InitialAccounts}

\* C13: every BankAccount a discovery run yields is inactive, whatever the
\* provider holds; and among discovery runs and webhook deliveries no
\* delivery finds a discovered account, stages a BankTransaction for one or
\* commits one.
C13_DiscoveredStayInactive ==
    /\ \A i \in 1..Len(produced) :
           \A j \in 1..Len(produced[i].bank_accounts) :
               produced[i].bank_accounts[j].active = FALSE
    /\ \A a \in accounts : Discovered(a.id) => a.active = FALSE
    /\ \A r \in Reqs :
        /\ bank_account[r] # None => ~Discovered(bank_account[r][1])
        /\ \A k \in 1..Len(txns[r]) : ~Discovered(txns[r][k].account_id)
    /\ \A k \in 1..Len(transactions) : ~Discovered(transactions[k].account_id)

\* C13 witness: the discovery has stored the GBP account of group 9, and
\* the delivery of a GBP credit of group 9 found no account, while a
\* delivery for a known account committed a row
C13_Witness ==
    /\ Len(produced) >= 1
    /\ Len(produced[1].bank_accounts) >= 1
    /\ \E a \in accounts :
           Discovered(a.id) /\ a.borderless_account_id = 9 /\ a.currency = "GBP"
    /\ \E r \in Reqs : \E q \in Reqs \ {r} :
        /\ pc[r] = "done"
        /\ request[r].id = Some(9) /\ request[r].currency = Some("GBP")
        /\ bank_account[r] = None
        /\ resp[r] = 204
        /\ Committed(q)
        /\ Len(transactions) >= 1

\* The positions of the business profiles in the provider's listing
C15_Business ==
    {k \in 1..Len(provider.profiles) : provider.profiles[k].type = "business"}

\* C15: with no profile id configured, a run resolves a profile only when
\* the listing holds exactly one business profile, and then that profile's
\* id; with more than one the run fails and yields no BankAccount.
C15_ExactlyOneBusinessProfile ==
    config.TRANSFERWISE_PROFILE_ID = None =>
        \A i \in 1..Len(produced) :
            /\ ~produced[i].raised =>
                   /\ Cardinality(C15_Business) = 1
                   /\ \A k \in C15_Business :
                          produced[i].profile = Some(provider.profiles[k].id)
            /\ Cardinality(C15_Business) > 1 =>
                   /\ produced[i].raised
                   /\ produced[i].bank_accounts = <<>>
                   /\ accounts = InitialAccounts

\* C15 witness: two business profiles are listed, the provider holds
\* accounts for the first, and the run has failed
C15_Witness ==
    /\ config.TRANSFERWISE_PROFILE_ID = None
    /\ Cardinality(C15_Business) = 2
    /\ provider.profiles[1].id = 1
    /\ Len(provider.borderless) >= 1
    /\ Len(produced) >= 1
    /\ produced[1].raised

RECURSIVE C16_Stripped(_)
\* The characters of s that are not spaces, in order
C16_Stripped(s) ==
    IF s = <<>> THEN <<>>
    ELSE IF Head(s) = " " THEN C16_Stripped(Tail(s))
    ELSE <<Head(s)>> \o C16_Stripped(Tail(s))

\* The last 8 characters of s, all of s when it has fewer
C16_Last8(s) ==
    IF Len(s) <= 8 THEN s ELSE [i \in 1..8 |-> s[Len(s) - 8 + i]]

\* The bank details of the one balance the provider holds
C16_Details == provider.borderless[1].balances[1].bankDetails

\* C16: the account of a GBP balance with bank details (and a bank address)
\* has the provider's accountNumber when that has exactly 8 characters, else
\* the last 8 characters of it without its spaces; its sort code is the
\* provider's bankCode.
C16_AccountNumber ==
    \A i \in 1..Len(produced) :
        (/\ C16_Details # None
         /\ C16_Details[1].bankAddress # None
         /\ C16_Details[1].currency = "GBP") =>
            /\ Len(produced[i].bank_accounts) = 1
            /\ produced[i].bank_accounts[1].sort_code = Some(C16_Details[1].bankCode)
            /\ produced[i].bank_accounts[1].acct_id =
                   Some(IF Len(C16_Details[1].accountNumber) = 8
                        THEN C16_Details[1].accountNumber
                        ELSE C16_Last8(C16_Stripped(C16_Details[1].accountNumber)))

\* C16 witness: the account number sent is an IBAN with spaces, and the
\* account has its last 8 characters that are not spaces
C16_Witness ==
    /\ Len(produced) >= 1
    /\ C16_Details # None
    /\ C16_Details[1].currency = "GBP"
    /\ C16_Details[1].accountNumber = Iban
    /\ Len(produced[1].bank_accounts) = 1
    /\ produced[1].bank_accounts[1].acct_id =
           Some(<<"1", "2", "3", "4", "5", "6", "7", "8">>)

\* C14: the health check stops at the first step that fails: no entry of
\* the list it returns follows a False entry, and the subscriptions are
\* listed only when the business profile step gave a True entry.
C14_StopsAtFirstFailure ==
    (validated # None /\ ~validated[1].raised) =>
        /\ \A i \in 1..Len(validated[1].result) - 1 : validated[1].result[i].ok
        /\ Len(validated[1].result) = Len(validated[1].probes)
        /\ (\E i \in 1..Len(validated[1].probes) :
                validated[1].probes[i] = "subscriptions")
           => validated[1].result[4].ok

\* The key of a statement entry for account a
C17_Key(a, t) ==
    <<a, t.date, Lower(t.details[1].type), t.details[1].paymentReference>>

RECURSIVE C17_New(_, _, _, _)
\* The rows statement S adds for account a from entry i on, when the keys
\* in seen exist: one for each CREDIT entry whose key does not exist yet
C17_New(a, S, i, seen) ==
    IF i > Len(S) THEN <<>>
    ELSE IF S[i].type = "CREDIT" /\ C17_Key(a, S[i]) \notin seen THEN
        <<[account_id |-> a, posted |-> S[i].date,
           type |-> Lower(S[i].details[1].type), amount |-> S[i].amount,
           payee |-> S[i].details[1].paymentReference]>>
        \o C17_New(a, S, i + 1, seen \cup {C17_Key(a, S[i])})
    ELSE C17_New(a, S, i + 1, seen)

\* C17: the step that completes a delivery for account A with statement S
\* leaves the existing rows and adds one row for each CREDIT entry of S
\* whose key (A, date, lower-cased detail type, reference) no row had, with
\* the entry's amount; the entries of another type add nothing.
C17_ReconciliationResult ==
    [][\A r \in Reqs :
           (pc[r] = "loop" /\ pc'[r] = "done" /\ resp'[r] = 204) =>
               transactions' =
                   transactions
                   \o C17_New(bank_account[r][1], statement[r][1], 1,
                              {Key(transactions[i]) : i \in 1..Len(transactions)})]_vars

\* C17 witness: after a delivery committed the row of Deposit50, a second
\* one for the same account completed with a statement of a new credit
\* and a debit, and two rows exist
C17_Witness ==
    \E r \in Reqs : \E q \in prior[r] :
        /\ Committed(q) /\ Committed(r)
        /\ bank_account[q] = bank_account[r]
        /\ statement[q] = Some(<<Deposit50, Deposit75>>)
        /\ statement[r] = Some(<<Other50, Refund50>>)
        /\ Len(transactions) = 2
        /\ transactions[1].amount = 50
        /\ transactions[2].payee = "INV124"

\* The positions of the commits among the effects of request r
C18_Commits(r) == {i \in 1..Len(log[r]) : log[r][i] = "commit"}

\* C18: a request commits at most once, as its last effect, after every
\* entry of its statement was examined, and is then answered 204; until
\* then, and when it ends in any other way (400, 500, the sentinel, no
\* active account, a failed fetch, a failing entry), no row is persisted,
\* whatever it has staged.
C18_SingleCommit ==
    \A r \in Reqs :
        /\ Cardinality(C18_Commits(r)) <= 1
        /\ C18_Commits(r) # {} =>
               /\ C18_Commits(r) = {Len(log[r])}
               /\ statement[r] # None
               /\ idx[r] = Len(statement[r][1]) + 1
               /\ pc[r] = "done" /\ resp[r] = 204
               /\ transactions = txns[r]
        /\ C18_Commits(r) = {} =>
               \A i \in 1..Len(transactions) :
                   \A k \in 1..Len(txns[r]) : transactions[i] # txns[r][k]
        /\ (pc[r] = "done" /\ resp[r] # 204) => C18_Commits(r) = {}
        /\ (pc[r] = "done" /\ statement[r] = None) => C18_Commits(r) = {}

\* C18 witness: the second entry of a statement failed after the first was
\* staged: the session was rolled back, nothing was committed and no row
\* exists
C18_Witness ==
    \E r \in Reqs :
        /\ pc[r] = "done"
        /\ resp[r] = 500
        /\ idx[r] = 2
        /\ Len(txns[r]) = 1
        /\ Did(r, "add") /\ Did(r, "rollback") /\ ~Did(r, "commit")
        /\ transactions = <<>>

\* The positions of an effect among the effects of request r
C19_At(r, effect) == {i \in 1..Len(log[r]) : log[r][i] = effect}

\* C19: a handler holds the row lock of its account only between the
\* return of its statement fetch and its commit or failure: it takes the
\* lock after its last statement request was answered with a statement and
\* before its first existence check, it holds none while its fetch is in
\* flight, and a delivery that waits for the lock waits for a handler that
\* is past its fetch, never for one whose fetch is in flight.
C19_LockAfterFetch ==
    /\ \A r \in Reqs :
        /\ pc[r] # "loop" => \A a \in AccountIds : lock[a] # r
        /\ \A l \in C19_At(r, "lock") :
            /\ statement[r] # None
            /\ \A h \in C19_At(r, "http") : h < l
            /\ \A q \in C19_At(r, "query") : l < q
        /\ C19_At(r, "query") # {} => C19_At(r, "lock") # {}
    /\ \A a \in AccountIds :
           lock[a] # 0 => pc[lock[a]] = "loop" /\ bank_account[lock[a]] = Some(a)
    /\ \A r \in Reqs :
           (/\ pc[r] = "lock"
            /\ \A q \in Reqs \ {r} :
                   bank_account[q] = bank_account[r] => pc[q] # "loop")
           => lock[bank_account[r][1]] = 0

\* C19 witness: while the fetch of one delivery is in flight, another
\* delivery for the same account holds the lock and has checked an entry
C19_Witness ==
    \E r \in Reqs : \E q \in Reqs \ {r} :
        /\ pc[q] = "fetch"
        /\ bank_account[q] = bank_account[r]
        /\ pc[r] = "loop"
        /\ lock[bank_account[r][1]] = r
        /\ Did(r, "query")

====
